---- MODULE Spec2Model ----
(***************************************************************************)
(* Model of websocket_core's authentication validator (src/auth/mod.rs):   *)
(* AuthMode::validate with its three arms, the two token extractors, and   *)
(* the collaborators it calls (AuthHeader::new, jwt::ClaimCode::validate,  *)
(* apikey::Data::validate and the externally owned nonce store).           *)
(*                                                                         *)
(* Text is a sequence of one-character strings, so that trimming and       *)
(* splitting act on characters.  Option<T> is <<>> (None) or <<v>> (Some). *)
(* A serde_json::Value is a one-field record tagged by its JSON type.      *)
(***************************************************************************)
EXTENDS Integers, Sequences, FiniteSets, TLC

VARIABLES
    mode,       \* the shared AuthMode configuration
    store,      \* the externally owned nonce store behind last_nonce_getter
    pc,         \* per call: position inside AuthMode::validate
    req,        \* per call: the AuthRequest being validated
    apikey,     \* per call: local `apikey` (line 102)
    signature,  \* per call: local `signature` (line 102)
    nonce,      \* per call: what last_nonce_getter returned (line 105)
    data,       \* per call: apikey::Data assembled at lines 103-111
    lookups,    \* per call: number of invocations of last_nonce_getter
    result,     \* per call: the value validate returned (or its panic)
    args,       \* inputs of a directly applied pure function
    ret         \* its return value

vars == <<mode, store, pc, req, apikey, signature, nonce, data, lookups, result, args, ret>>
callVars == <<pc, req, apikey, signature, nonce, data, lookups, result>>

-----------------------------------------------------------------------------
(* Bounds *)

NumCalls == 2
MaxNonce == 2
MaxPieces == 3
MaxBoundLen == 2
MaxTokenLen == 3

Calls == 1..NumCalls
Nonces == 1..MaxNonce

-----------------------------------------------------------------------------
(* Values *)

None == <<>>
Some(v) == <<v>>

Str(s) == [str |-> s]
Num(n) == [num |-> n]
Obj(f) == [obj |-> f]
Null == [null |-> TRUE]

IsObject(v) == "obj" \in DOMAIN v
IsString(v) == "str" \in DOMAIN v

\* serde_json::Value::get(&str): the member of an object, None for any other value
ValueGet(v, i) == IF IsObject(v) /\ i \in DOMAIN v.obj THEN Some(v.obj[i]) ELSE None

\* serde_json::Value::as_str
AsStr(v) == IF IsString(v) THEN Some(v.str) ELSE None

\* Option::and_then(|v| v.as_str())
GetStr(v, i) == LET o == ValueGet(v, i) IN IF o = None THEN None ELSE AsStr(o[1])

\* ActixResult<()> and ActixResult<&str>; a panic is kept apart from both
Ok == <<"Ok">>
OkVal(v) == <<"Ok", v>>
Unauthorized(msg, what) == <<"Unauthorized", msg, what>>
Panic(msg) == <<"panic", msg>>

IsOk(r) == r[1] = "Ok"
IsErr(r) == r[1] = "Unauthorized"
IsPanic(r) == r[1] = "panic"

HttpHeader(h) == [shape |-> "HttpHeader", headers |-> h]
WebsocketFrame(v) == [shape |-> "WebsocketFrame", frame |-> v]

Text(t) == [text |-> t]
Opaque == [bytes |-> TRUE]

-----------------------------------------------------------------------------
(* Location templates *)

Marker == <<"{", "t", "o", "k", "e", "n", "}">>
Bearer == <<"B", "e", "a", "r", "e", "r", " ">>
KeyTail == <<" ", "K", "e", "y">>

Occurrences(t) ==
    {i \in 1..(Len(t) - Len(Marker) + 1) : SubSeq(t, i, i + Len(Marker) - 1) = Marker}

OptText(t) == IF t = <<>> THEN None ELSE Some(t)

AuthHeaderNewFirstMarker(field, template) ==
    LET occ == Occurrences(template) IN
    IF occ = {} THEN None
    ELSE LET i == CHOOSE j \in occ : \A k \in occ : j <= k IN
         Some([field |-> field,
               token_bound |-> <<OptText(SubSeq(template, 1, i - 1)),
                                 OptText(SubSeq(template, i + Len(Marker), Len(template)))>>])

\* AuthHeader::new(field, template) -> Option<AuthHeader>
AuthHeaderNew(field, template) ==
    LET occ == Occurrences(template) IN
    IF Cardinality(occ) # 1 THEN None
    ELSE LET i == CHOOSE j \in occ : TRUE IN
         Some([field |-> field,
               token_bound |-> <<OptText(SubSeq(template, 1, i - 1)),
                                 OptText(SubSeq(template, i + Len(Marker), Len(template)))>>])

\* AuthField { key_or_token, sign, payload }
AuthField(k, s, p) == [key_or_token |-> k, sign |-> s, payload |-> p]

-----------------------------------------------------------------------------
(* Extraction *)

StartsWith(s, pat) == Len(s) >= Len(pat) /\ SubSeq(s, 1, Len(pat)) = pat
EndsWith(s, pat) == Len(s) >= Len(pat) /\ SubSeq(s, Len(s) - Len(pat) + 1, Len(s)) = pat

\* str::trim_start_matches: strips every leading repetition of the pattern
RECURSIVE TrimStartMatches(_, _)
TrimStartMatches(s, pat) ==
    IF pat # <<>> /\ StartsWith(s, pat)
    THEN TrimStartMatches(SubSeq(s, Len(pat) + 1, Len(s)), pat)
    ELSE s

\* str::trim_end_matches: strips every trailing repetition of the pattern
RECURSIVE TrimEndMatches(_, _)
TrimEndMatches(s, pat) ==
    IF pat # <<>> /\ EndsWith(s, pat)
    THEN TrimEndMatches(SubSeq(s, 1, Len(s) - Len(pat)), pat)
    ELSE s

\* extract_token_from_header(template, header)
ExtractTokenFromHeader(template, header) ==
    IF template.field \notin DOMAIN header
    THEN Unauthorized("Missing field", template.field)
    ELSE LET header_value == header[template.field] IN
         IF "text" \notin DOMAIN header_value
         THEN Unauthorized("to_str", template.field)
         ELSE LET t0 == header_value.text
                  t1 == IF template.token_bound[1] # None
                        THEN TrimStartMatches(t0, template.token_bound[1][1])
                        ELSE t0
                  t2 == IF template.token_bound[2] # None
                        THEN TrimEndMatches(t1, template.token_bound[2][1])
                        ELSE t1
              IN OkVal(t2)

\* extract_token_from_wsframe(field, dataframe)
ExtractTokenFromWsframe(field, dataframe) ==
    IF IsObject(dataframe)
    THEN LET s == GetStr(dataframe, field) IN
         IF s = None THEN Unauthorized("not found or not a string", field)
         ELSE OkVal(s[1])
    ELSE Unauthorized("request must be in type object", "")

-----------------------------------------------------------------------------
(* Collaborators of validate *)

SigningSecret == "s"
OtherSecret == "o"
UriPath == "/ws"
OtherPath == "/other"

\* jwt::ClaimCode: which claims are enforced; disable_all() checks the signature only
DisableAll == [exp |-> FALSE]
CheckExpiry == [exp |-> TRUE]

\* A token is the two-character text <<signer, state>>: the secret that signed it
\* and "v" (in force) or "x" (expired); any other text does not decode.
JwtToken(secret, state) == <<secret, state>>

\* jwt::ClaimCode::validate(secret, token)
ClaimCodeValidate(claim_code, secret, token) ==
    IF Len(token) # 2 \/ token[2] \notin {"v", "x"} THEN Unauthorized("Malformed", "")
    ELSE IF token[1] # secret THEN Unauthorized("InvalidSignature", "")
    ELSE IF claim_code.exp /\ token[2] = "x" THEN Unauthorized("Expired", "")
    ELSE Ok

\* The keyed MAC over the canonical message, as a symbolic term: two MACs are
\* equal exactly when secret, resource path, nonce and payload all are.
Mac(secret, uri_path, n, payload) == <<secret, uri_path, n, payload>>

ApiKeyDataNoPath(uri_path, n, payload) == [uri_path |-> "", nonce |-> n, payload |-> payload]

\* apikey::Data { uri_path, nonce, payload } as validate assembles it
ApiKeyData(uri_path, n, payload) == [uri_path |-> uri_path, nonce |-> n, payload |-> payload]

\* apikey::Data::validate(secret, signature)
DataValidate(d, secret, sig) ==
    IF sig = Mac(secret, d.uri_path, d.nonce, d.payload) THEN Ok
    ELSE Unauthorized("InvalidSignature", "")

-----------------------------------------------------------------------------
(* AuthMode *)

NoneMode == [kind |-> "None"]
HeaderLocation(h) == [at |-> "Header", header |-> h]
FrameLocation(f) == [at |-> "WebSocketFrame", field |-> f]
JwtMode(loc, secret, claim_code) ==
    [kind |-> "JWT", auth_location |-> loc, signing_secret |-> secret, validate |-> claim_code]
ApiKeyMode(auth_field, secret, uri_path) ==
    [kind |-> "APIKey", auth_field |-> auth_field, signing_secret |-> secret, uri_path |-> uri_path]

\* AuthMode::default_jwt_from
DefaultJwtFrom(secret) ==
    JwtMode(HeaderLocation(AuthHeaderNew("Authorization", Bearer \o Marker)[1]), secret, DisableAll)

JwtFrameMode == JwtMode(FrameLocation(AuthField("token", None, None)), SigningSecret, CheckExpiry)
ApiKeyFull == ApiKeyMode(AuthField("apikey", Some("sig"), Some("data")), SigningSecret, UriPath)
ApiKeyNoSign == ApiKeyMode(AuthField("apikey", None, Some("data")), SigningSecret, UriPath)
ApiKeyNoPayload == ApiKeyMode(AuthField("apikey", Some("sig"), None), SigningSecret, UriPath)

Modes == {NoneMode, DefaultJwtFrom(SigningSecret), JwtFrameMode,
          ApiKeyFull, ApiKeyNoSign, ApiKeyNoPayload}

-----------------------------------------------------------------------------
(* Requests *)

K1 == <<"k", "1">>
K2 == <<"k", "2">>
StoreKeys == {K1}

D1 == Obj([x |-> 1])
D2 == Obj([x |-> 2])
Payloads == {D1, D2}

Tokens == {JwtToken(SigningSecret, "v"), JwtToken(SigningSecret, "x"), JwtToken(OtherSecret, "v")}

EmptyHeaders == [n \in {} |-> Opaque]
HeaderMaps ==
    {EmptyHeaders, [n \in {"Authorization"} |-> Opaque]}
    \cup {[n \in {"Authorization"} |-> Text(Bearer \o t)] : t \in Tokens}

Signatures ==
    {Mac(SigningSecret, p, n, d) : p \in {UriPath, OtherPath}, n \in Nonces, d \in Payloads}
    \cup {Mac(OtherSecret, UriPath, n, d) : n \in Nonces, d \in Payloads}

KeyOpts == {None, Some(Str(K1)), Some(Str(K2)), Some(Num(7))}
SigOpts == {None, Some(Num(7))} \cup {Some(Str(m)) : m \in Signatures}
DataOpts == {None} \cup {Some(d) : d \in Payloads}

MkFrame(k, s, d) ==
    Obj([n \in (IF k = None THEN {} ELSE {"apikey"})
               \cup (IF s = None THEN {} ELSE {"sig"})
               \cup (IF d = None THEN {} ELSE {"data"}) |->
            IF n = "apikey" THEN k[1] ELSE IF n = "sig" THEN s[1] ELSE d[1]])

ApiFrames == {MkFrame(k, s, d) : k \in KeyOpts, s \in SigOpts, d \in DataOpts}
JwtFrames == {Obj([token |-> Str(t)]) : t \in Tokens} \cup {Obj([token |-> Num(7)])}
NonObjects == {Null, Num(0), Str(K1)}

Requests ==
    {HttpHeader(h) : h \in HeaderMaps}
    \cup {WebsocketFrame(v) : v \in ApiFrames \cup JwtFrames \cup NonObjects}

-----------------------------------------------------------------------------
(* AuthMode::validate *)

Continue == <<"continue">>

UnreachableAsUnauthorized(msg) == Unauthorized(msg, "")

\* unreachable!(..): the (mode, request shape) pairing is an integration fault
Unreachable(msg) == Panic(msg)

NoneArmObjectsOnly(request) ==
    IF request.shape = "WebsocketFrame" /\ ~IsObject(request.frame)
    THEN Unauthorized("request must be in type object", "")
    ELSE Ok

\* Self::None => Ok(())
NoneArm(request) == Ok

\* The JWT arm: extract the token where the location says, then check its claims
JwtArm(m, request) ==
    LET loc == m.auth_location
        token == IF loc.at = "Header" /\ request.shape = "HttpHeader"
                 THEN ExtractTokenFromHeader(loc.header, request.headers)
                 ELSE IF loc.at = "WebSocketFrame" /\ request.shape = "WebsocketFrame"
                 THEN ExtractTokenFromWsframe(loc.field.key_or_token, request.frame)
                 ELSE Unreachable("check your ws_upgrader or Actor::handler implementation")
    IN IF IsOk(token) THEN ClaimCodeValidate(m.validate, m.signing_secret, token[2])
       ELSE token

\* The APIKey arm up to the first read of the frame: the request must be a frame,
\* and the field template must name the signature and payload fields
ApiKeyEntry(m, request) ==
    IF request.shape = "WebsocketFrame"
    THEN IF m.auth_field.sign = None \/ m.auth_field.payload = None
         THEN Panic("AuthField::apikey")
         ELSE Continue
    ELSE Unreachable("check your Actor::handler implementation")

\* match self { .. }: a final outcome, or Continue into the APIKey arm's body
Route(m, request) ==
    IF m.kind = "None" THEN NoneArm(request)
    ELSE IF m.kind = "JWT" THEN JwtArm(m, request)
    ELSE ApiKeyEntry(m, request)

\* get_payload_from(i): a string member of the frame, or the "not found" rejection
GetPayloadFrom(frame, i) ==
    LET v == GetStr(frame, i) IN
    IF v = None THEN Unauthorized("not found", i) ELSE OkVal(v[1])

\* last_nonce_getter(apikey): a read of the externally owned store
GetNonceFrom(st, k) == IF k \in DOMAIN st THEN st[k] ELSE None

\* validate as one sequential computation, given the answer `n` of its nonce lookup
ValidateAlone(m, request, n) ==
    LET e == Route(m, request) IN
    IF e # Continue THEN e
    ELSE LET frame == request.frame
             k == GetPayloadFrom(frame, m.auth_field.key_or_token)
             sg == GetPayloadFrom(frame, m.auth_field.sign[1])
             pl == ValueGet(frame, m.auth_field.payload[1])
         IN IF ~IsOk(k) THEN k
            ELSE IF ~IsOk(sg) THEN sg
            ELSE IF n = None THEN Unauthorized("invalid", m.auth_field.key_or_token)
            ELSE IF pl = None THEN Unauthorized("not found", m.auth_field.payload[1])
            ELSE DataValidate(ApiKeyData(m.uri_path, n[1], pl[1]), m.signing_secret, sg[2])

-----------------------------------------------------------------------------
(* One call of validate, step by step *)

Finish(p, r) ==
    /\ result' = [result EXCEPT ![p] = r]
    /\ pc' = [pc EXCEPT ![p] = "done"]

\* the caller builds an AuthRequest and calls validate
Call(p, R) ==
    /\ pc[p] = "idle"
    /\ \E r \in R : req' = [req EXCEPT ![p] = r]
    /\ pc' = [pc EXCEPT ![p] = "dispatch"]
    /\ UNCHANGED <<mode, store, apikey, signature, nonce, data, lookups, result, args, ret>>

\* match self: None and JWT finish here; APIKey goes on to read the frame
Dispatch(p) ==
    /\ pc[p] = "dispatch"
    /\ LET e == Route(mode, req[p]) IN
       IF e = Continue
       THEN pc' = [pc EXCEPT ![p] = "get_key"] /\ UNCHANGED result
       ELSE Finish(p, e)
    /\ UNCHANGED <<mode, store, req, apikey, signature, nonce, data, lookups, args, ret>>

GetKeySkipsSignature(p) ==
    /\ pc[p] = "get_key"
    /\ LET k == GetPayloadFrom(req[p].frame, mode.auth_field.key_or_token) IN
       IF IsOk(k)
       THEN /\ apikey' = [apikey EXCEPT ![p] = Some(k[2])]
            /\ pc' = [pc EXCEPT ![p] = "lookup"]
            /\ UNCHANGED result
       ELSE Finish(p, k) /\ UNCHANGED apikey
    /\ UNCHANGED <<mode, store, req, signature, nonce, data, lookups, args, ret>>

\* get_payload_from(key_field)?
GetKey(p) ==
    /\ pc[p] = "get_key"
    /\ LET k == GetPayloadFrom(req[p].frame, mode.auth_field.key_or_token) IN
       IF IsOk(k)
       THEN /\ apikey' = [apikey EXCEPT ![p] = Some(k[2])]
            /\ pc' = [pc EXCEPT ![p] = "get_sig"]
            /\ UNCHANGED result
       ELSE Finish(p, k) /\ UNCHANGED apikey
    /\ UNCHANGED <<mode, store, req, signature, nonce, data, lookups, args, ret>>

\* get_payload_from(signature_field)?
GetSignature(p) ==
    /\ pc[p] = "get_sig"
    /\ LET sg == GetPayloadFrom(req[p].frame, mode.auth_field.sign[1]) IN
       IF IsOk(sg)
       THEN /\ signature' = [signature EXCEPT ![p] = Some(sg[2])]
            /\ pc' = [pc EXCEPT ![p] = "lookup"]
            /\ UNCHANGED result
       ELSE Finish(p, sg) /\ UNCHANGED signature
    /\ UNCHANGED <<mode, store, req, apikey, nonce, data, lookups, args, ret>>

LookupNonceDefaultZero(p) ==
    /\ pc[p] = "lookup"
    /\ LET n == GetNonceFrom(store, apikey[p][1]) IN
       /\ lookups' = [lookups EXCEPT ![p] = @ + 1]
       /\ nonce' = [nonce EXCEPT ![p] = IF n = None THEN Some(0) ELSE n]
       /\ pc' = [pc EXCEPT ![p] = "get_payload"]
       /\ UNCHANGED result
    /\ UNCHANGED <<mode, store, req, apikey, signature, data, args, ret>>

LookupNonceConsuming(p) ==
    /\ pc[p] = "lookup"
    /\ LET n == GetNonceFrom(store, apikey[p][1]) IN
       /\ lookups' = [lookups EXCEPT ![p] = @ + 1]
       /\ nonce' = [nonce EXCEPT ![p] = n]
       /\ IF n = None
          THEN Finish(p, Unauthorized("invalid", mode.auth_field.key_or_token))
               /\ UNCHANGED store
          ELSE /\ pc' = [pc EXCEPT ![p] = "get_payload"]
               /\ store' = [store EXCEPT ![apikey[p][1]] = None]
               /\ UNCHANGED result
    /\ UNCHANGED <<mode, req, apikey, signature, data, args, ret>>

\* get_nonce_from(apikey).ok_or_else(..)?
LookupNonce(p) ==
    /\ pc[p] = "lookup"
    /\ LET n == GetNonceFrom(store, apikey[p][1]) IN
       /\ lookups' = [lookups EXCEPT ![p] = @ + 1]
       /\ nonce' = [nonce EXCEPT ![p] = n]
       /\ IF n = None
          THEN Finish(p, Unauthorized("invalid", mode.auth_field.key_or_token))
          ELSE pc' = [pc EXCEPT ![p] = "get_payload"] /\ UNCHANGED result
    /\ UNCHANGED <<mode, store, req, apikey, signature, data, args, ret>>

\* payload.get(payload_field).cloned().ok_or_else(..)?, completing apikey::Data
GetPayload(p) ==
    /\ pc[p] = "get_payload"
    /\ LET pl == ValueGet(req[p].frame, mode.auth_field.payload[1]) IN
       IF pl = None
       THEN Finish(p, Unauthorized("not found", mode.auth_field.payload[1])) /\ UNCHANGED data
       ELSE /\ data' = [data EXCEPT ![p] = Some(ApiKeyData(mode.uri_path, nonce[p][1], pl[1]))]
            /\ pc' = [pc EXCEPT ![p] = "mac"]
            /\ UNCHANGED result
    /\ UNCHANGED <<mode, store, req, apikey, signature, nonce, lookups, args, ret>>

CheckMacSharedNonce(p) ==
    /\ pc[p] = "mac"
    /\ \E q \in Calls :
          /\ nonce[q] # None
          /\ Finish(p, DataValidate([data[p][1] EXCEPT !.nonce = nonce[q][1]],
                                    mode.signing_secret, signature[p][1]))
    /\ UNCHANGED <<mode, store, req, apikey, signature, nonce, data, lookups, args, ret>>

\* data.validate(signing_secret.to_vec(), signature.as_bytes())
CheckMac(p) ==
    /\ pc[p] = "mac"
    /\ Finish(p, DataValidate(data[p][1], mode.signing_secret, signature[p][1]))
    /\ UNCHANGED <<mode, store, req, apikey, signature, nonce, data, lookups, args, ret>>

\* validate has returned (or unwound); its locals are dropped
Return(p) ==
    /\ pc[p] = "done"
    /\ pc' = [pc EXCEPT ![p] = "idle"]
    /\ req' = [req EXCEPT ![p] = None]
    /\ apikey' = [apikey EXCEPT ![p] = None]
    /\ signature' = [signature EXCEPT ![p] = None]
    /\ nonce' = [nonce EXCEPT ![p] = None]
    /\ data' = [data EXCEPT ![p] = None]
    /\ lookups' = [lookups EXCEPT ![p] = 0]
    /\ result' = [result EXCEPT ![p] = None]
    /\ UNCHANGED <<mode, store, args, ret>>

\* the owner of the nonce store registers, advances or revokes a key's nonce
StoreUpdate ==
    /\ \E k \in StoreKeys, v \in {None} \cup {Some(n) : n \in Nonces} :
          /\ v # store[k]
          /\ store' = [store EXCEPT ![k] = v]
    /\ UNCHANGED <<mode, callVars, args, ret>>

ValidateStep(p) ==
    \/ Dispatch(p)
    \/ GetKey(p)
    \/ GetSignature(p)
    \/ LookupNonce(p)
    \/ GetPayload(p)
    \/ CheckMac(p)

NoArgs == None
Pending == <<"pending">>
Returned(v) == <<"returned", v>>

InitCalls ==
    /\ pc = [p \in Calls |-> "idle"]
    /\ req = [p \in Calls |-> None]
    /\ apikey = [p \in Calls |-> None]
    /\ signature = [p \in Calls |-> None]
    /\ nonce = [p \in Calls |-> None]
    /\ data = [p \in Calls |-> None]
    /\ lookups = [p \in Calls |-> 0]
    /\ result = [p \in Calls |-> None]

Init ==
    /\ mode \in Modes
    /\ store \in [StoreKeys -> {None} \cup {Some(n) : n \in Nonces}]
    /\ InitCalls
    /\ args = NoArgs
    /\ ret = Pending

\* one validation at a time, against a store its owner updates at any moment
Next ==
    \/ Call(1, Requests)
    \/ ValidateStep(1)
    \/ Return(1)
    \/ StoreUpdate

Spec == Init /\ [][Next]_vars

-----------------------------------------------------------------------------
(* Concurrent validations on one shared AuthMode *)

K1Frame(n) == MkFrame(Some(Str(K1)), Some(Str(Mac(SigningSecret, UriPath, n, D1))), Some(D1))

ConcRequests ==
    {WebsocketFrame(K1Frame(n)) : n \in Nonces}
    \cup {WebsocketFrame(MkFrame(Some(Str(K2)), Some(Str(Mac(SigningSecret, UriPath, 1, D1))), Some(D1))),
          WebsocketFrame(MkFrame(Some(Str(K1)), None, Some(D1))),
          WebsocketFrame(MkFrame(Some(Str(K1)), Some(Str(Mac(SigningSecret, UriPath, 1, D1))), None)),
          HttpHeader([n \in {"Authorization"} |-> Text(Bearer \o JwtToken(SigningSecret, "v"))])}

ConcModes == {NoneMode, DefaultJwtFrom(SigningSecret), ApiKeyFull}

InitConc ==
    /\ mode \in ConcModes
    /\ store \in [StoreKeys -> {None} \cup {Some(n) : n \in Nonces}]
    /\ InitCalls
    /\ args = NoArgs
    /\ ret = Pending

\* any number of calls in flight at once, their steps interleaved
NextConc ==
    \/ \E p \in Calls : Call(p, ConcRequests)
    \/ \E p \in Calls : ValidateStep(p)
    \/ \E p \in Calls : Return(p)
    \/ StoreUpdate

SpecConc == InitConc /\ [][NextConc]_vars

-----------------------------------------------------------------------------
(* Properties of AuthMode::validate *)

Done(p) == pc[p] = "done"
InCall(p) == pc[p] # "idle"
FrameCall(p) == InCall(p) /\ req[p].shape = "WebsocketFrame"
HeaderCall(p) == InCall(p) /\ req[p].shape = "HttpHeader"

\* APIKey mode whose field template names the signature and payload fields
ApiKeyConfigured == mode.kind = "APIKey" /\ mode.auth_field.sign # None /\ mode.auth_field.payload # None

KeyField == mode.auth_field.key_or_token
SignField == mode.auth_field.sign[1]
PayloadField == mode.auth_field.payload[1]

FrameKey(p) == GetStr(req[p].frame, KeyField)
FrameSig(p) == GetStr(req[p].frame, SignField)
FramePayload(p) == ValueGet(req[p].frame, PayloadField)

OptNonces == {None} \cup {Some(n) : n \in Nonces}

\* C1: in None mode every finished call returned success, whatever the request's
\* shape and content.
C1_NoneAlwaysSucceeds ==
    \A p \in Calls : (Done(p) /\ mode.kind = "None") => result[p] = Ok

C1_Witness ==
    \E p \in Calls : Done(p) /\ mode.kind = "None" /\ result[p] = Ok
                     /\ req[p] = WebsocketFrame(Null)

Mismatched(p) ==
    \/ mode.kind = "JWT" /\ mode.auth_location.at = "Header" /\ FrameCall(p)
    \/ mode.kind = "JWT" /\ mode.auth_location.at = "WebSocketFrame" /\ HeaderCall(p)
    \/ mode.kind = "APIKey" /\ HeaderCall(p)

\* C2: a call whose (mode, request shape) pairing is not an accepted one ends in a
\* panic: never in success, never in an unauthorized error, and before any lookup.
C2_MismatchPanics ==
    \A p \in Calls : (Done(p) /\ Mismatched(p)) =>
        /\ IsPanic(result[p])
        /\ ~IsOk(result[p])
        /\ ~IsErr(result[p])
        /\ lookups[p] = 0

C2_Witness ==
    \E p \in Calls : /\ Done(p) /\ mode.kind = "APIKey" /\ HeaderCall(p)
                     /\ "Authorization" \in DOMAIN req[p].headers
                     /\ IsPanic(result[p])

\* the key the frame carries is one the nonce lookup answers None for
Unrecognized(p) ==
    /\ FrameKey(p) # None
    /\ \/ FrameKey(p)[1] \notin DOMAIN store
       \/ lookups[p] = 1 /\ nonce[p] = None

\* C3 as stated: in API-key mode every frame whose key is unrecognized is rejected
\* with the "invalid <key field>" error.
C3_Original ==
    \A p \in Calls : (Done(p) /\ ApiKeyConfigured /\ FrameCall(p) /\ Unrecognized(p)) =>
        result[p] = Unauthorized("invalid", KeyField)

\* C3 amended: in API-key mode every frame that holds the key field and the
\* signature field as strings and whose key is unrecognized is rejected with the
\* "invalid <key field>" error after exactly one lookup, whatever the signature is.
C3_UnrecognizedKeyRejected ==
    \A p \in Calls :
        (Done(p) /\ ApiKeyConfigured /\ FrameCall(p) /\ Unrecognized(p) /\ FrameSig(p) # None) =>
            /\ result[p] = Unauthorized("invalid", KeyField)
            /\ lookups[p] = 1

C3_Witness ==
    \E p \in Calls : /\ Done(p) /\ ApiKeyConfigured /\ FrameCall(p)
                     /\ FrameKey(p) = Some(K2)
                     /\ FrameSig(p) = Some(Mac(SigningSecret, UriPath, 1, D1))
                     /\ FramePayload(p) = Some(D1)
                     /\ result[p] = Unauthorized("invalid", KeyField)

\* the frame holds all three fields and the lookup resolved its key to a nonce
Resolved(p) ==
    /\ Done(p) /\ ApiKeyConfigured /\ FrameCall(p)
    /\ FrameKey(p) # None /\ FrameSig(p) # None /\ FramePayload(p) # None
    /\ lookups[p] = 1 /\ nonce[p] # None

\* C4: with all three fields present and the key resolved to nonce n, the call
\* succeeds when the signature is the MAC, under the mode's secret, of (resource
\* path, n, payload), and is rejected as InvalidSignature when the signature was
\* made over a triple that differs in path, nonce or payload.
C4_MacDecides ==
    \A p \in Calls : Resolved(p) =>
        LET n == nonce[p][1]
            pl == FramePayload(p)[1]
            sg == FrameSig(p)[1]
        IN /\ sg = Mac(mode.signing_secret, mode.uri_path, n, pl) => result[p] = Ok
           /\ \A path \in {UriPath, OtherPath}, m \in Nonces, d \in Payloads :
                 (sg = Mac(mode.signing_secret, path, m, d) /\ <<path, m, d>> # <<mode.uri_path, n, pl>>)
                    => result[p] = Unauthorized("InvalidSignature", "")

C4_Witness ==
    \E p \in Calls : /\ Resolved(p)
                     /\ FrameSig(p)[1] = Mac(mode.signing_secret, mode.uri_path, nonce[p][1], FramePayload(p)[1])
                     /\ nonce[p] = Some(MaxNonce)
                     /\ result[p] = Ok

\* a finished, accepted API-key call gives the same outcome when the same frame is
\* validated again while the store still answers what the call observed
ReplayGivesSameOutcome ==
    \A p \in Calls :
        (Done(p) /\ lookups[p] = 1 /\ GetNonceFrom(store, apikey[p][1]) = nonce[p]) =>
            ValidateAlone(mode, req[p], GetNonceFrom(store, apikey[p][1])) = result[p]

\* C7: no step of validate changes the nonce store (only its owner does), so
\* resubmitting a frame while the store has not advanced gives the same outcome.
C7_StoreUntouched ==
    /\ [][(callVars' # callVars) => (store' = store)]_vars
    /\ []ReplayGivesSameOutcome

C7_Witness ==
    \E p \in Calls : /\ Done(p) /\ mode.kind = "APIKey" /\ lookups[p] = 1
                     /\ result[p] = Ok
                     /\ store[apikey[p][1]] = nonce[p]

NotFound(f) == Unauthorized("not found", f)

\* C10: the API-key steps run in the order key, signature, lookup, payload, MAC and
\* stop at the first failure; the lookup runs at most once, only in APIKey mode and
\* only after key and signature were read as strings; a missing key or signature is
\* rejected before any lookup, a missing payload only after the lookup gave a nonce.
C10_StepOrder ==
    \A p \in Calls :
        /\ lookups[p] <= 1
        /\ lookups[p] = 1 =>
              /\ ApiKeyConfigured /\ FrameCall(p)
              /\ apikey[p] # None /\ apikey[p] = FrameKey(p)
              /\ signature[p] # None /\ signature[p] = FrameSig(p)
        /\ data[p] # None => (lookups[p] = 1 /\ nonce[p] # None)
        /\ (Done(p) /\ ApiKeyConfigured /\ FrameCall(p)) =>
              /\ FrameKey(p) = None => (result[p] = NotFound(KeyField) /\ lookups[p] = 0)
              /\ (FrameKey(p) # None /\ FrameSig(p) = None) =>
                    (result[p] = NotFound(SignField) /\ lookups[p] = 0)
              /\ (FrameKey(p) # None /\ FrameSig(p) # None) => lookups[p] = 1
              /\ result[p] = NotFound(PayloadField) =>
                    (lookups[p] = 1 /\ nonce[p] # None /\ FramePayload(p) = None)
              /\ (lookups[p] = 1 /\ nonce[p] # None /\ FramePayload(p) = None) =>
                    result[p] = NotFound(PayloadField)
              /\ (IsOk(result[p]) \/ result[p] = Unauthorized("InvalidSignature", "")) =>
                    (lookups[p] = 1 /\ data[p] # None)

C10_Witness ==
    \E p \in Calls : /\ Done(p) /\ ApiKeyConfigured /\ FrameCall(p)
                     /\ FramePayload(p) = None
                     /\ lookups[p] = 1 /\ nonce[p] # None
                     /\ result[p] = NotFound(PayloadField)

\* what the call returns when run alone, for each answer its lookup may have had
AloneResults(p) ==
    {ValidateAlone(mode, req[p], n) : n \in (IF lookups[p] = 1 THEN {nonce[p]} ELSE OptNonces)}

Isolated == \A p \in Calls : Done(p) => AloneResults(p) = {result[p]}

\* C8: under every interleaving of concurrent calls the shared mode is never
\* changed, and each call's result is the one the same call gives when run alone
\* with the nonce its own lookup observed.
C8_ConcurrentCallsIsolated ==
    /\ [][mode' = mode]_vars
    /\ []Isolated

C8_Witness ==
    \E p, q \in Calls :
        /\ p # q /\ Done(p) /\ Done(q)
        /\ req[p] = req[q]
        /\ lookups[p] = 1 /\ lookups[q] = 1
        /\ nonce[p] # nonce[q]
        /\ result[p] = Ok /\ result[q] = Unauthorized("InvalidSignature", "")

-----------------------------------------------------------------------------
(* The pure functions, applied directly to inputs drawn from bounded sets *)

IdleValidator ==
    /\ mode = NoneMode
    /\ store = [k \in StoreKeys |-> None]
    /\ InitCalls

\* every text made of at most n pieces
RECURSIVE Concats(_, _)
Concats(pieces, n) ==
    IF n = 0 THEN {<<>>}
    ELSE LET shorter == Concats(pieces, n - 1) IN
         shorter \cup {t \o piece : t \in shorter, piece \in pieces}

TemplatePieces == {Marker, Bearer, KeyTail, <<"{">>, <<"t", "o", "k", "e", "n", "}">>}
Templates == Concats(TemplatePieces, MaxPieces)

InitNew ==
    /\ IdleValidator
    /\ args \in {[fn |-> "new", field |-> "Authorization", template |-> t] : t \in Templates}
    /\ ret = Pending

ApplyNew ==
    /\ ret = Pending
    /\ args.fn = "new"
    /\ ret' = Returned(AuthHeaderNew(args.field, args.template))
    /\ UNCHANGED <<mode, store, callVars, args>>

SpecNew == InitNew /\ [][ApplyNew]_vars

Letters == {<<"a">>, <<"b">>}
BoundTexts == Concats(Letters, MaxBoundLen) \cup {Bearer}
TokenTexts == Concats(Letters, MaxTokenLen) \cup {Bearer \o <<"a">>}

\* a header holding prefix + token + suffix under the template prefix{token}suffix
BoundedCase(prefix, token, suffix) ==
    [fn |-> "extract_token_from_header",
     template |-> AuthHeaderNew("Authorization", prefix \o Marker \o suffix)[1],
     header |-> [n \in {"Authorization"} |-> Text(prefix \o token \o suffix)],
     bounded |-> TRUE,
     token |-> token]

\* a header map without the field, or with a value that is not text
UnboundedCase(prefix, header) ==
    [fn |-> "extract_token_from_header",
     template |-> AuthHeaderNew("Authorization", prefix \o Marker)[1],
     header |-> header,
     bounded |-> FALSE,
     token |-> <<>>]

InitHeader ==
    /\ IdleValidator
    /\ args \in {BoundedCase(pre, t, suf) : pre \in BoundTexts, t \in TokenTexts, suf \in BoundTexts}
                \cup {UnboundedCase(pre, h) : pre \in BoundTexts,
                                             h \in {EmptyHeaders, [n \in {"Authorization"} |-> Opaque]}}
    /\ ret = Pending

ApplyExtractHeader ==
    /\ ret = Pending
    /\ args.fn = "extract_token_from_header"
    /\ ret' = Returned(ExtractTokenFromHeader(args.template, args.header))
    /\ UNCHANGED <<mode, store, callVars, args>>

SpecHeader == InitHeader /\ [][ApplyExtractHeader]_vars

FrameFields == {"token", "apikey", "sig"}
NonStrings == {Null, Num(7), Obj([x |-> 1]), [arr |-> <<>>]}
MemberValues == {Str(JwtToken(SigningSecret, "v")), Str(K1)} \cup NonStrings
ObjectFrames == {Obj(f) : f \in UNION {[S -> MemberValues] : S \in SUBSET FrameFields}}
AnyFrames == ObjectFrames \cup NonStrings \cup {Str(K1)}

InitFrame ==
    /\ IdleValidator
    /\ args \in {[fn |-> "extract_token_from_wsframe", field |-> f, frame |-> v] :
                    f \in FrameFields, v \in AnyFrames}
    /\ ret = Pending

ApplyExtractFrame ==
    /\ ret = Pending
    /\ args.fn = "extract_token_from_wsframe"
    /\ ret' = Returned(ExtractTokenFromWsframe(args.field, args.frame))
    /\ UNCHANGED <<mode, store, callVars, args>>

SpecFrame == InitFrame /\ [][ApplyExtractFrame]_vars

-----------------------------------------------------------------------------
(* Properties of the pure functions *)

Unopt(o) == IF o = None THEN <<>> ELSE o[1]

\* the places where the template reads as the marker
MarkerAt(t) == {i \in 0..(Len(t) - Len(Marker)) : \A j \in 1..Len(Marker) : t[i + j] = Marker[j]}

\* C9: AuthHeader::new succeeds exactly when the template holds the marker once;
\* then prefix + marker + suffix is the template again, and an empty prefix or
\* suffix is None.
C9_NewSplitsAtSingleMarker ==
    (ret # Pending /\ args.fn = "new") =>
        LET h == ret[2] IN
        /\ h # None <=> Cardinality(MarkerAt(args.template)) = 1
        /\ h # None =>
              /\ h[1].field = args.field
              /\ Unopt(h[1].token_bound[1]) \o Marker \o Unopt(h[1].token_bound[2]) = args.template
              /\ h[1].token_bound[1] # Some(<<>>)
              /\ h[1].token_bound[2] # Some(<<>>)

C9_Witness ==
    /\ ret # Pending /\ args.fn = "new"
    /\ args.template = Bearer \o Marker \o KeyTail
    /\ ret[2] = Some([field |-> "Authorization", token_bound |-> <<Some(Bearer), Some(KeyTail)>>])

\* C5 as stated: from a header holding prefix + T + suffix the extraction returns
\* exactly T, whatever T is.
C5_ExactInnerToken ==
    (ret # Pending /\ args.fn = "extract_token_from_header" /\ args.bounded) =>
        ret[2] = OkVal(args.token)

FieldMissing == IsObject(args.frame) /\ args.field \notin DOMAIN args.frame.obj
FieldNotString == IsObject(args.frame) /\ args.field \in DOMAIN args.frame.obj
                  /\ ~IsString(args.frame.obj[args.field])
FieldString == IsObject(args.frame) /\ args.field \in DOMAIN args.frame.obj
               /\ IsString(args.frame.obj[args.field])

\* C6: extraction from a frame reports three distinct rejections: a frame that
\* is not an object is rejected as "request must be in type object"; the rejection
\* of an object lacking the field (MissingField) is a different one from the
\* rejection of an object holding a non-string there (Malformed); the field's
\* string is returned only for an object holding a string there.
C6_ThreeDistinctRejections ==
    (ret # Pending /\ args.fn = "extract_token_from_wsframe") =>
        LET r == ret[2] IN
        /\ ~IsObject(args.frame) => r = Unauthorized("request must be in type object", "")
        /\ (FieldMissing \/ FieldNotString) => IsErr(r)
        /\ FieldMissing =>
              \A v \in NonStrings :
                  r # ExtractTokenFromWsframe(args.field, Obj([n \in {args.field} |-> v]))
        /\ FieldString => r = OkVal(args.frame.obj[args.field].str)
        /\ IsOk(r) => FieldString

====
